---- MODULE Spec2Model ----
(***************************************************************************)
(* The offline cache controller of src/service-worker.js.                  *)
(*                                                                         *)
(* One script is deployed in successive versions; version v is the script  *)
(* with CACHE set to v's tag.  The state is the origin's cache storage     *)
(* (the named buckets, in creation order), the lifecycle state of every    *)
(* version, the promises the install and activate listeners hand to        *)
(* waitUntil, and one record per fetch event with the position of its      *)
(* promise chain.  Every action is one listener run or one continuation    *)
(* (a .then/.catch callback together with the storage or network           *)
(* operation whose result it receives).                                    *)
(*                                                                         *)
(* The environment follows the Service Workers lifecycle: a version stays  *)
(* `installing` until every promise given to waitUntil has settled, it is  *)
(* discarded when one of them rejects, a waiting version with the          *)
(* skip-waiting flag is activated once the active version has no event     *)
(* with a pending respondWith, fetch events are dispatched to the version  *)
(* only once it is `activated`.  Work a listener started without handing   *)
(* it to waitUntil/respondWith is detached: it may still run after its     *)
(* version was replaced, because a worker is terminated asynchronously.    *)
(* A new version is deployed only when no other version is installing,     *)
(* waiting or activating.                                                  *)
(***************************************************************************)
EXTENDS Integers, Sequences, FiniteSets, TLC

\* ---------------------------------------------------------------- bounds
MaxVersion == 2      \* versions deployed, tags 1..MaxVersion
MaxLegacy == 2       \* buckets left in the storage by earlier deployments
MaxHandlers == 2     \* fetch events dispatched

Versions == 1..MaxVersion

\* const CACHE = 'weekly-planner-v1': the bucket name of version v
CACHE(v) == v

\* names of the buckets earlier deployments left behind: 0, -1, ...
LegacyNames == (1 - MaxLegacy)..0

Names == LegacyNames \cup {CACHE(v) : v \in Versions}

\* ------------------------------------------------------------- requests
SelfHost == "self"

Req(h, p) == [host |-> h, path |-> p]

LOCAL_ASSETS ==
  << "./", "./index.html", "./manifest.json",
     "./icon-192.svg", "./icon-512.svg", "./icon-maskable.svg" >>

AssetRequests == {Req(SelfHost, LOCAL_ASSETS[i]) : i \in 1..Len(LOCAL_ASSETS)}

IndexHtml == Req(SelfHost, "./index.html")
MissingPng == Req(SelfHost, "./missing.png")
FontFile == Req("fonts.gstatic.com", "/font.woff2")
FontCss == Req("fonts.googleapis.com", "/css")
CdnLib == Req("cdn.example.com", "/lib.js")

\* the requests the pages issue
Requests == {IndexHtml, MissingPng, FontFile, FontCss, CdnLib}

\* a test that knows only one of the two font hostnames
IsFontGstaticOnly(r) == r.host = "fonts.gstatic.com"

\* url.hostname === 'fonts.googleapis.com' || url.hostname === 'fonts.gstatic.com'
IsFont(r) == r.host = "fonts.googleapis.com" \/ r.host = "fonts.gstatic.com"

\* url.origin === self.location.origin
SameOrigin(r) == r.host = SelfHost

\* ------------------------------------------------------------ responses
\* A response is its status and the fetch that produced it: src = h for the
\* fetch of handler h, src = -v for the install of version v, src = 0 for
\* an entry an earlier deployment left in the storage.
Resp(s, f) == [status |-> s, src |-> f]

None == Resp(0, 0)         \* undefined: no entry
Failed == Resp(-1, 0)      \* a rejected promise / a network error
Pending == Resp(-2, 0)     \* a promise not settled yet

IsResponse(x) == x.status > 0

\* response.ok
Ok(x) == x.status >= 200 /\ x.status <= 299

\* a null body status: the response carries no body stream
NullBody(x) == x.status \in {204, 205, 304}

\* what fetch(request) of handler h can settle with: a response with status
\* 200, 204 or 404, or a rejection (no connectivity)
Statuses == {200, 204, 404}
NetAnswers(h) == {Resp(s, h) : s \in Statuses} \cup {Failed}

\* ---------------------------------------------------------------- state
VARIABLES
  wstate,          \* lifecycle state of every version
  installWait,     \* the promise the install listener gave to waitUntil
  activateWait,    \* the promise the activate listener gave to waitUntil
  skipWaitingFlag, \* set by self.skipWaiting()
  ipc,             \* position of the promise chain of the install listener
  apc,             \* position of the promise chain of the activate listener
  lcache,          \* the Cache object caches.open(CACHE) gave the install chain
  keys,            \* the buckets caches.keys() resolved with in Activate
  deleting,        \* the caches.delete(k) calls of Activate still in flight
  active,          \* the registration's active worker (0: none)
  names,           \* the existing bucket names, in creation order
  store,           \* the entries of every bucket
  gen,             \* how many buckets of each name have been created so far
  hs               \* one record per fetch event

lifeVars == << wstate, installWait, activateWait, skipWaitingFlag, ipc, apc,
               lcache, keys, deleting, active >>
storeVars == << names, store, gen >>
vars == << wstate, installWait, activateWait, skipWaitingFlag, ipc, apc,
           lcache, keys, deleting, active, names, store, gen, hs >>

\* the request identities a bucket can hold
Keys == AssetRequests \cup Requests

\* a bucket maps the request identities it holds to their responses
EmptyCache == [k \in {} |-> None]

\* what earlier deployments left in a bucket: the shell and an image
LegacyCache == [k \in {IndexHtml, MissingPng} |-> Resp(200, 0)]

\* the entry bucket n holds for request r, None when it holds none
Entry(n, r) == IF r \in DOMAIN store[n] THEN store[n][r] ELSE None

\* a put that replaces the content of the bucket by the one entry
WithEntryOnly(c, r, x) == [k \in {r} |-> x]

\* the entries of cache c with the entry for r set to x
WithEntry(c, r, x) == [k \in DOMAIN c \cup {r} |-> IF k = r THEN x ELSE c[k]]

Range(s) == {s[i] : i \in 1..Len(s)}

Exists(n) == n \in Range(names)

\* ------------------------------------------------------- cache storage
\* caches.open(name): the bucket is created, empty, when it does not exist
OpenNames(n) == IF Exists(n) THEN names ELSE Append(names, n)
OpenStore(n) == IF Exists(n) THEN store ELSE [store EXCEPT ![n] = EmptyCache]
OpenGen(n) == IF Exists(n) THEN gen ELSE [gen EXCEPT ![n] = @ + 1]

\* a Cache object is the bucket (name n, creation g) it was opened on; it
\* outlives caches.delete(n), but its entries are then out of the storage
Alive(n, g) == Exists(n) /\ gen[n] = g

\* cache.put(request, response) on the Cache object (n, g)
PutStore(n, g, r, x) ==
  IF Alive(n, g) THEN [store EXCEPT ![n] = WithEntry(@, r, x)] ELSE store

\* cache.match(request) on the Cache object (n, g)
CacheMatch(n, g, r) == IF Alive(n, g) THEN Entry(n, r) ELSE None

\* caches.match(request): the buckets are searched in creation order and the
\* first entry found is returned; MatchBucket is the bucket it is found in
MatchBucket(r) ==
  LET hits == {i \in 1..Len(names) : Entry(names[i], r) # None}
  IN  IF hits = {} THEN {}
      ELSE {names[CHOOSE i \in hits : \A j \in hits : i <= j]}

CachesMatch(r) ==
  IF MatchBucket(r) = {} THEN None
  ELSE Entry(CHOOSE n \in MatchBucket(r) : TRUE, r)

\* caches.delete(name)
DeleteNames(n) == SelectSeq(names, LAMBDA k : k # n)
DeleteStore(n) == [store EXCEPT ![n] = EmptyCache]

\* ----------------------------------------------------------------- Init
Init ==
  /\ wstate = [v \in Versions |-> "parsed"]
  /\ installWait = [v \in Versions |-> "none"]
  /\ activateWait = [v \in Versions |-> "none"]
  /\ skipWaitingFlag = [v \in Versions |-> FALSE]
  /\ ipc = [v \in Versions |-> "idle"]
  /\ apc = [v \in Versions |-> "idle"]
  /\ keys = [v \in Versions |-> {}]
  /\ lcache = [v \in Versions |-> 0]
  /\ deleting = [v \in Versions |-> {}]
  /\ active = 0
  /\ \E k \in 0..MaxLegacy :
       /\ names = [i \in 1..k |-> 1 - i]
       /\ store = [n \in Names |->
                    IF n \in LegacyNames /\ n > 0 - k THEN LegacyCache
                    ELSE EmptyCache]
       /\ gen = [n \in Names |-> IF n \in LegacyNames /\ n > 0 - k THEN 1 ELSE 0]
  /\ hs = << >>

\* ------------------------------------------------------------- Install
\* the install listener without event.waitUntil: the chain runs detached
InstallEventNoWaitUntil(v) ==
  /\ wstate[v] = "parsed"
  /\ \A u \in Versions : u < v => wstate[u] \in {"activated", "redundant"}
  /\ wstate' = [wstate EXCEPT ![v] = "installing"]
  /\ ipc' = [ipc EXCEPT ![v] = "open"]
  /\ skipWaitingFlag' = [skipWaitingFlag EXCEPT ![v] = TRUE]
  /\ UNCHANGED << installWait, activateWait, apc, lcache, keys, deleting, active,
                  storeVars, hs >>

\* A new version is registered and its install event fires; the listener
\* hands caches.open(CACHE).then(addAll) to waitUntil and calls skipWaiting.
InstallEvent(v) ==
  /\ wstate[v] = "parsed"
  /\ \A u \in Versions : u < v => wstate[u] \in {"activated", "redundant"}
  /\ wstate' = [wstate EXCEPT ![v] = "installing"]
  /\ installWait' = [installWait EXCEPT ![v] = "pending"]
  /\ ipc' = [ipc EXCEPT ![v] = "open"]
  /\ skipWaitingFlag' = [skipWaitingFlag EXCEPT ![v] = TRUE]
  /\ UNCHANGED << activateWait, apc, lcache, keys, deleting, active, storeVars, hs >>

\* caches.open(CACHE) of the install chain resolves; .then calls addAll
InstallOpen(v) ==
  /\ ipc[v] = "open"
  /\ names' = OpenNames(CACHE(v))
  /\ store' = OpenStore(CACHE(v))
  /\ gen' = OpenGen(CACHE(v))
  /\ lcache' = [lcache EXCEPT ![v] = gen'[CACHE(v)]]
  /\ ipc' = [ipc EXCEPT ![v] = "addAll"]
  /\ UNCHANGED << wstate, installWait, activateWait, skipWaitingFlag, apc, keys,
                  deleting, active, hs >>

\* What the fetches of cache.addAll(LOCAL_ASSETS) give: bad = 0 when every
\* asset is answered with a success status, else the first asset whose fetch
\* fails or is answered with another status.
AddAllOutcomes == 0..Len(LOCAL_ASSETS)

\* an addAll that stores every response as it arrives: the assets before the
\* failing one are in the bucket when the promise rejects
AddAllStoreEach(v, bad) ==
  IF Alive(CACHE(v), lcache[v])
  THEN LET got == {Req(SelfHost, LOCAL_ASSETS[i]) :
                     i \in {j \in 1..Len(LOCAL_ASSETS) : bad = 0 \/ j < bad}}
       IN  [store EXCEPT ![CACHE(v)] =
              [k \in DOMAIN @ \cup got |->
                 IF k \in got THEN Resp(200, 0 - v) ELSE @[k]]]
  ELSE store

\* cache.addAll: every asset is fetched, and the responses are stored in one
\* batch only when all of them arrived with a success status
AddAllStore(v, bad) ==
  IF bad = 0 /\ Alive(CACHE(v), lcache[v])
  THEN [store EXCEPT ![CACHE(v)] =
          [k \in DOMAIN @ \cup AssetRequests |->
             IF k \in AssetRequests THEN Resp(200, 0 - v) ELSE @[k]]]
  ELSE store

\* the chain with a .catch(() => {}) appended: a failed addAll is swallowed
AddAllPromiseSwallowed(bad) == "fulfilled"

\* the promise of cache.addAll, which is the promise given to waitUntil
AddAllPromise(bad) == IF bad = 0 THEN "fulfilled" ELSE "rejected"

\* cache.addAll(LOCAL_ASSETS) settles, and with it the promise of waitUntil
InstallAddAll(v) ==
  /\ ipc[v] = "addAll"
  /\ \E bad \in AddAllOutcomes :
       /\ store' = AddAllStore(v, bad)
       /\ installWait' = [installWait EXCEPT ![v] = AddAllPromise(bad)]
       /\ ipc' = [ipc EXCEPT ![v] = IF bad = 0 THEN "stored" ELSE "failed"]
  /\ UNCHANGED << wstate, activateWait, skipWaitingFlag, apc, lcache, keys,
                  deleting, active, names, gen, hs >>

\* The install event is over once no promise given to waitUntil is pending:
\* the version is discarded when one rejected, and waits otherwise.
InstallDone(v) ==
  /\ wstate[v] = "installing"
  /\ installWait[v] # "pending"
  /\ wstate' = [wstate EXCEPT ![v] =
                  IF installWait[v] = "rejected" THEN "redundant" ELSE "installed"]
  /\ UNCHANGED << installWait, activateWait, skipWaitingFlag, ipc, apc, lcache,
                  keys, deleting, active, storeVars, hs >>

\* ------------------------------------------------------------ Activate
Handlers == 1..Len(hs)

\* an event of version v whose respondWith promise has not settled
HasPendingEvents(v) ==
  \E h \in Handlers : hs[h].ver = v /\ hs[h].result = Pending

\* the activation without the demotion of the worker it replaces
ActivateEventKeepOld(v) ==
  /\ wstate[v] = "installed"
  /\ \/ active = 0
     \/ skipWaitingFlag[v] /\ ~HasPendingEvents(active)
  /\ wstate' = [wstate EXCEPT ![v] = "activating"]
  /\ active' = v
  /\ activateWait' = [activateWait EXCEPT ![v] = "pending"]
  /\ apc' = [apc EXCEPT ![v] = "keys"]
  /\ UNCHANGED << installWait, skipWaitingFlag, ipc, lcache, keys, deleting,
                  storeVars, hs >>

\* The waiting version becomes the active worker (at once when there is no
\* active worker, else when the skip-waiting flag is set and the active
\* worker has no pending event); the worker it replaces becomes redundant.
\* The activate event fires: the listener hands caches.keys().then(...) to
\* waitUntil and claims the clients.
ActivateEvent(v) ==
  /\ wstate[v] = "installed"
  /\ \/ active = 0
     \/ skipWaitingFlag[v] /\ ~HasPendingEvents(active)
  /\ wstate' = [u \in Versions |->
                  IF u = v THEN "activating"
                  ELSE IF u = active THEN "redundant" ELSE wstate[u]]
  /\ active' = v
  /\ activateWait' = [activateWait EXCEPT ![v] = "pending"]
  /\ apc' = [apc EXCEPT ![v] = "keys"]
  /\ UNCHANGED << installWait, skipWaitingFlag, ipc, lcache, keys, deleting,
                  storeVars, hs >>

\* a filter that keeps every key: the bucket of the version goes as well
StaleKeysAll(v, ks) == ks

\* keys.filter(k => k !== CACHE)
StaleKeys(v, ks) == {k \in ks : k # CACHE(v)}

\* caches.keys() resolves; .then starts caches.delete(k) for every stale key
\* and Promise.all of no promise at all is fulfilled at once
ActivateKeys(v) ==
  /\ apc[v] = "keys"
  /\ keys' = [keys EXCEPT ![v] = {<< n, gen[n] >> : n \in Range(names)}]
  /\ deleting' = [deleting EXCEPT ![v] = StaleKeys(v, Range(names))]
  /\ IF deleting'[v] = {}
     THEN /\ activateWait' = [activateWait EXCEPT ![v] = "fulfilled"]
          /\ apc' = [apc EXCEPT ![v] = "done"]
     ELSE /\ apc' = [apc EXCEPT ![v] = "delete"]
          /\ UNCHANGED activateWait
  /\ UNCHANGED << wstate, installWait, skipWaitingFlag, ipc, lcache, active,
                  storeVars, hs >>

\* Promise.all after one more of its promises settled: rejected as soon as
\* one rejects, fulfilled when the last one is fulfilled
PromiseAll(p, left, ok) ==
  IF p # "pending" THEN p
  ELSE IF ~ok THEN "rejected"
  ELSE IF left = {} THEN "fulfilled"
  ELSE "pending"

\* one caches.delete(k) settles: the bucket is removed, or the storage fails
DeleteResolve(v, k) ==
  /\ apc[v] = "delete"
  /\ k \in deleting[v]
  /\ \E ok \in BOOLEAN :
       /\ names' = IF ok THEN DeleteNames(k) ELSE names
       /\ store' = IF ok THEN DeleteStore(k) ELSE store
       /\ activateWait' = [activateWait EXCEPT ![v] =
                             PromiseAll(@, deleting[v] \ {k}, ok)]
  /\ deleting' = [deleting EXCEPT ![v] = @ \ {k}]
  /\ apc' = [apc EXCEPT ![v] = IF deleting[v] = {k} THEN "done" ELSE "delete"]
  /\ UNCHANGED << wstate, installWait, skipWaitingFlag, ipc, lcache, keys, active,
                  gen, hs >>

\* The activate event is over once no promise given to waitUntil is pending;
\* the version is activated whether the promise was fulfilled or rejected.
ActivateDone(v) ==
  /\ wstate[v] = "activating"
  /\ activateWait[v] # "pending"
  /\ wstate' = [wstate EXCEPT ![v] = "activated"]
  /\ UNCHANGED << installWait, activateWait, skipWaitingFlag, ipc, apc, lcache,
                  keys, deleting, active, storeVars, hs >>

\* --------------------------------------------------------------- Fetch
\* A fetch event is dispatched to the active worker once it is activated.
\* The listener classifies the request by its hostname and calls
\* respondWith, on the font branch with caches.open(CACHE).then(...), on
\* the other with caches.match(event.request).then(...).catch(...).
\*   ver     the version whose listener runs
\*   pc      the operation the promise chain waits for
\*   cache   the Cache object caches.open(CACHE) resolved with
\*   cached  what the cache lookup resolved with
\*   from    the bucket a returned cache entry was read from
\*   net     what fetch(event.request) settled with
\*   calls   the number of fetch(event.request) calls made
\*   result  what the promise given to respondWith settled with
\*   after   the handlers of the same request that had run to their end
\*           when the event fired
FetchEvent(r) ==
  /\ active # 0
  /\ wstate[active] = "activated"
  /\ Len(hs) < MaxHandlers
  /\ hs' = Append(hs, [ver |-> active, req |-> r,
                       pc |-> IF IsFont(r) THEN "open" ELSE "match",
                       cache |-> 0, cached |-> None, from |-> {},
                       net |-> None, calls |-> 0, result |-> Pending,
                       after |-> {h \in Handlers :
                                    hs[h].req = r /\ hs[h].pc = "done"}])
  /\ UNCHANGED << lifeVars, storeVars >>

\* ---- font branch: stale-while-revalidate
\* caches.open(CACHE) resolves; .then calls cache.match(event.request)
FontOpen(h) ==
  /\ h \in Handlers
  /\ hs[h].pc = "open" /\ IsFont(hs[h].req)
  /\ names' = OpenNames(CACHE(hs[h].ver))
  /\ store' = OpenStore(CACHE(hs[h].ver))
  /\ gen' = OpenGen(CACHE(hs[h].ver))
  /\ hs' = [hs EXCEPT ![h].cache = gen'[CACHE(hs[h].ver)], ![h].pc = "match"]
  /\ UNCHANGED lifeVars

\* return network: the cached entry is never the answer
CoalesceNetwork(cached, network) == network

\* cached ?? network
Coalesce(cached, network) == IF cached # None THEN cached ELSE network

\* a network-first font branch: the answer waits for fetch(event.request)
FontMatchAwaitRefresh(h) ==
  /\ h \in Handlers
  /\ hs[h].pc = "match" /\ IsFont(hs[h].req)
  /\ LET cached == CacheMatch(CACHE(hs[h].ver), hs[h].cache, hs[h].req)
     IN  hs' = [hs EXCEPT ![h].cached = cached,
                          ![h].from = IF cached # None THEN {CACHE(hs[h].ver)} ELSE {},
                          ![h].calls = @ + 1,
                          ![h].pc = "fetch"]
  /\ UNCHANGED << lifeVars, storeVars >>

\* cache.match resolves; .then calls fetch(event.request) and returns
\* cached ?? network, the network promise being still pending
FontMatch(h) ==
  /\ h \in Handlers
  /\ hs[h].pc = "match" /\ IsFont(hs[h].req)
  /\ LET cached == CacheMatch(CACHE(hs[h].ver), hs[h].cache, hs[h].req)
     IN  hs' = [hs EXCEPT ![h].cached = cached,
                          ![h].from = IF cached # None THEN {CACHE(hs[h].ver)} ELSE {},
                          ![h].calls = @ + 1,
                          ![h].result = Coalesce(cached, Pending),
                          ![h].pc = "fetch"]
  /\ UNCHANGED << lifeVars, storeVars >>

\* The font branch stores the response whatever its status is.
FontShouldPut(x) == TRUE

\* a font branch that ends in the .catch of the other branch: a failed fetch
\* is answered with the entry of './index.html'
FontNetCaught(h) ==
  /\ h \in Handlers
  /\ hs[h].pc = "fetch" /\ IsFont(hs[h].req)
  /\ \E x \in NetAnswers(h) :
       hs' = [hs EXCEPT ![h].net = x,
                        ![h].result = IF @ # Pending THEN @
                                      ELSE IF x = Failed
                                      THEN Coalesce(CachesMatch(IndexHtml), Failed)
                                      ELSE x,
                        ![h].pc = IF x # Failed /\ FontShouldPut(x)
                                  THEN "put" ELSE "done"]
  /\ UNCHANGED << lifeVars, storeVars >>

\* fetch(event.request) settles.  With a response, .then calls
\* cache.put(event.request, response.clone()) and returns the response; a
\* rejection is the outcome of the network promise.
FontNet(h) ==
  /\ h \in Handlers
  /\ hs[h].pc = "fetch" /\ IsFont(hs[h].req)
  /\ \E x \in NetAnswers(h) :
       hs' = [hs EXCEPT ![h].net = x,
                        ![h].result = IF @ = Pending THEN x ELSE @,
                        ![h].pc = IF x # Failed /\ FontShouldPut(x)
                                  THEN "put" ELSE "done"]
  /\ UNCHANGED << lifeVars, storeVars >>

\* cache.put of the font branch completes
FontPut(h) ==
  /\ h \in Handlers
  /\ hs[h].pc = "put" /\ IsFont(hs[h].req)
  /\ store' = PutStore(CACHE(hs[h].ver), hs[h].cache, hs[h].req, hs[h].net)
  /\ hs' = [hs EXCEPT ![h].pc = "done"]
  /\ UNCHANGED << lifeVars, names, gen >>

\* ---- everything else: cache-first, network fallback, offline shell
\* the entry is looked up but the network is asked all the same
CacheFirstHitNever(cached) == FALSE

\* if (cached) return cached;
CacheFirstHit(cached) == cached # None

\* caches.match(event.request) resolves; .then returns the entry when there
\* is one and calls fetch(event.request) otherwise
LocalMatch(h) ==
  /\ h \in Handlers
  /\ hs[h].pc = "match" /\ ~IsFont(hs[h].req)
  /\ LET cached == CachesMatch(hs[h].req)
     IN  hs' = [hs EXCEPT ![h].cached = cached,
                          ![h].from = MatchBucket(hs[h].req),
                          ![h].calls = IF CacheFirstHit(cached) THEN @ ELSE @ + 1,
                          ![h].result = IF CacheFirstHit(cached) THEN cached ELSE @,
                          ![h].pc = IF CacheFirstHit(cached) THEN "done" ELSE "fetch"]
  /\ UNCHANGED << lifeVars, storeVars >>

\* response.ok && url.origin === self.location.origin
LocalShouldPut(r, x) == Ok(x) /\ SameOrigin(r)

\* fetch(event.request) settles.  With a response, .then starts
\* caches.open(CACHE) when the response is to be stored and returns the
\* response; a rejection reaches .catch, which calls caches.match('./index.html').
LocalNet(h) ==
  /\ h \in Handlers
  /\ hs[h].pc = "fetch" /\ ~IsFont(hs[h].req)
  /\ \E x \in NetAnswers(h) :
       hs' = [hs EXCEPT ![h].net = x,
                        ![h].result = IF x = Failed THEN @ ELSE x,
                        ![h].pc = IF x = Failed THEN "fallback"
                                  ELSE IF LocalShouldPut(hs[h].req, x) THEN "open"
                                  ELSE "done"]
  /\ UNCHANGED << lifeVars, storeVars >>

\* the chain without its .catch: the rejection reaches respondWith
FallbackNoCatch(entry) == Failed

\* The promise of respondWith was fulfilled with an entry or rejected
\* (respondWith given undefined is a network error for the page).
Fallback(entry) == IF entry # None THEN entry ELSE Failed

\* a .catch that looks the request itself up again instead of './index.html'
LocalFallbackSameRequest(h) ==
  /\ h \in Handlers
  /\ hs[h].pc = "fallback"
  /\ hs' = [hs EXCEPT ![h].result = Fallback(CachesMatch(hs[h].req)),
                      ![h].from = MatchBucket(hs[h].req),
                      ![h].pc = "done"]
  /\ UNCHANGED << lifeVars, storeVars >>

\* caches.match('./index.html') of .catch resolves
LocalFallback(h) ==
  /\ h \in Handlers
  /\ hs[h].pc = "fallback"
  /\ hs' = [hs EXCEPT ![h].result = Fallback(CachesMatch(IndexHtml)),
                      ![h].from = MatchBucket(IndexHtml),
                      ![h].pc = "done"]
  /\ UNCHANGED << lifeVars, storeVars >>

\* response.clone() throws a TypeError when the body of the response is
\* locked.  The clone of this branch is made in the callback of
\* caches.open(CACHE), which runs in a later task than the callback that
\* returned the response: respondWith has taken the body by then, so only a
\* response without a body can still be cloned.
CloneThrows(x) == ~NullBody(x)

\* caches.open(CACHE) of the opportunistic write resolves; .then calls
\* cache.put(event.request, response.clone())
LocalOpen(h) ==
  /\ h \in Handlers
  /\ hs[h].pc = "open" /\ ~IsFont(hs[h].req)
  /\ names' = OpenNames(CACHE(hs[h].ver))
  /\ store' = OpenStore(CACHE(hs[h].ver))
  /\ gen' = OpenGen(CACHE(hs[h].ver))
  /\ hs' = [hs EXCEPT ![h].cache = gen'[CACHE(hs[h].ver)],
                      ![h].pc = IF CloneThrows(hs[h].net) THEN "done" ELSE "put"]
  /\ UNCHANGED lifeVars

\* cache.put of the opportunistic write completes
LocalPut(h) ==
  /\ h \in Handlers
  /\ hs[h].pc = "put" /\ ~IsFont(hs[h].req)
  /\ store' = PutStore(CACHE(hs[h].ver), hs[h].cache, hs[h].req, hs[h].net)
  /\ hs' = [hs EXCEPT ![h].pc = "done"]
  /\ UNCHANGED << lifeVars, names, gen >>

\* ----------------------------------------------------------------- Next
Next ==
  \/ \E v \in Versions : InstallEvent(v)
  \/ \E v \in Versions : InstallOpen(v)
  \/ \E v \in Versions : InstallAddAll(v)
  \/ \E v \in Versions : InstallDone(v)
  \/ \E v \in Versions : ActivateEvent(v)
  \/ \E v \in Versions : ActivateKeys(v)
  \/ \E v \in Versions : \E k \in Names : DeleteResolve(v, k)
  \/ \E v \in Versions : ActivateDone(v)
  \/ \E r \in Requests : FetchEvent(r)
  \/ \E h \in 1..MaxHandlers : FontOpen(h)
  \/ \E h \in 1..MaxHandlers : FontMatch(h)
  \/ \E h \in 1..MaxHandlers : FontNet(h)
  \/ \E h \in 1..MaxHandlers : FontPut(h)
  \/ \E h \in 1..MaxHandlers : LocalMatch(h)
  \/ \E h \in 1..MaxHandlers : LocalNet(h)
  \/ \E h \in 1..MaxHandlers : LocalFallback(h)
  \/ \E h \in 1..MaxHandlers : LocalOpen(h)
  \/ \E h \in 1..MaxHandlers : LocalPut(h)

Spec == Init /\ [][Next]_vars

\* ========================================================== properties
\* the entries the existing buckets hold for request r
Entries(r) == {Entry(n, r) : n \in Range(names)} \ {None}

\* the step settles the promise handler h gave to respondWith
Settles(h) == hs[h].result = Pending /\ hs'[h].result # Pending

\* ---- C1
\* C1 -- cache-first: when the lookup of a non-font request resolves while
\* some bucket holds an entry for the request, the handler answers with such
\* an entry in that very step and has called fetch not once; a non-font
\* handler that found an entry never calls fetch and answers with that entry.
C1_CacheFirst ==
  /\ [][\A h \in Handlers :
          ( /\ ~IsFont(hs[h].req)
            /\ hs[h].pc = "match" /\ hs'[h].pc # "match"
            /\ Entries(hs[h].req) # {} )
          => /\ hs'[h].result \in Entries(hs[h].req)
             /\ hs'[h].calls = 0
             /\ hs'[h].pc = "done"]_vars
  /\ [](\A h \in Handlers :
          (~IsFont(hs[h].req) /\ hs[h].cached # None)
          => (hs[h].result = hs[h].cached /\ hs[h].calls = 0 /\ hs[h].net = None))

C1_Witness ==
  \E h \in Handlers :
    /\ ~IsFont(hs[h].req) /\ hs[h].pc = "done"
    /\ IsResponse(hs[h].cached) /\ hs[h].result = hs[h].cached
    /\ hs[h].calls = 0

InstalledBy(v) ==
  {<< n, k >> \in Names \X Keys : Entry(n, k).src = 0 - v}

InstallStep(v) == ipc'[v] # ipc[v] \/ wstate'[v] # wstate[v]

\* C4 -- install atomicity: a version one of whose asset fetches failed is
\* never activating nor active; no step of a version's install up to and
\* including its failure changes the active worker, the entries of another
\* bucket or the outcome of any cache lookup, and the bucket of a failed
\* install is empty.
C4_InstallAtomicity ==
  /\ [](\A v \in Versions :
          ipc[v] = "failed"
          => /\ wstate[v] \in {"installing", "redundant"}
             /\ active # v
             /\ store[CACHE(v)] = EmptyCache)
  /\ [][\A v \in Versions :
          (wstate[v] = "installing" /\ InstallStep(v) /\ ipc'[v] # "stored")
          => /\ active' = active
             /\ (active # 0 => wstate'[active] = wstate[active])
             /\ \A n \in Names \ {CACHE(v)} : store'[n] = store[n]
             /\ \A r \in Keys : CachesMatch(r)' = CachesMatch(r)]_vars

C4_Witness ==
  \E u, v \in Versions :
    /\ u < v /\ active = u /\ wstate[u] = "activated"
    /\ ipc[v] = "failed" /\ wstate[v] = "redundant"
    /\ \E h \in Handlers : hs[h].ver = u /\ hs[h].pc = "done"

\* ---- C5
\* the step completes the activation of version v
ActivateCompletes(v) == wstate[v] = "activating" /\ wstate'[v] = "activated"

RefreshCompletes(h) ==
  /\ IsFont(hs[h].req) /\ hs[h].cached # None
  /\ hs[h].pc = "put" /\ hs'[h].pc = "done"

\* C6 as stated -- a font request with a cache entry is answered with the
\* cached response, and once the network response has arrived and its
\* cache.put has completed, the entry of bucket CACHE for the request is the
\* network response.
C6_AsStated ==
  /\ [](\A h \in Handlers :
          (IsFont(hs[h].req) /\ hs[h].cached # None) => hs[h].result = hs[h].cached)
  /\ [][\A h \in Handlers :
          RefreshCompletes(h)
          => Entry(CACHE(hs[h].ver), hs[h].req)' = hs[h].net]_vars

\* C6 -- stale-while-revalidate: a font request with a cache entry is
\* answered with the cached response, found in bucket CACHE, whatever the
\* network does later; once the network response has arrived and its
\* cache.put has completed, the entry of bucket CACHE for the request is the
\* network response, provided the bucket the handler opened has not been
\* deleted in the meantime.
C6_StaleWhileRevalidate ==
  /\ [](\A h \in Handlers :
          (IsFont(hs[h].req) /\ hs[h].cached # None)
          => (hs[h].result = hs[h].cached /\ hs[h].calls = 1))
  /\ [][\A h \in Handlers :
          ( /\ IsFont(hs[h].req) /\ hs[h].pc = "match" /\ hs'[h].pc # "match"
            /\ Entry(CACHE(hs[h].ver), hs[h].req) # None )
          => hs'[h].result = Entry(CACHE(hs[h].ver), hs[h].req)]_vars
  /\ [][\A h \in Handlers :
          (RefreshCompletes(h) /\ Alive(CACHE(hs[h].ver), hs[h].cache))
          => /\ IsResponse(hs[h].net) /\ hs[h].net.src = h
             /\ Entry(CACHE(hs[h].ver), hs[h].req)' = hs[h].net]_vars

C6_Witness ==
  \E h \in Handlers :
    /\ IsFont(hs[h].req) /\ hs[h].pc = "done"
    /\ IsResponse(hs[h].cached) /\ hs[h].result = hs[h].cached
    /\ IsResponse(hs[h].net) /\ hs[h].net # hs[h].cached
    /\ Entry(CACHE(hs[h].ver), hs[h].req) = hs[h].net

\* ---- C7
\* C7 as stated -- opportunistic caching: when a non-font same-origin request
\* that was not cached has been answered by a successful network response and
\* its handler has run to its end, an identical request intercepted after
\* that is answered from the cache and no fetch is made for it.
C7_AsStated ==
  \A h2 \in Handlers : \A h1 \in hs[h2].after :
    ( /\ hs[h1].req = hs[h2].req
      /\ ~IsFont(hs[h1].req) /\ SameOrigin(hs[h1].req)
      /\ hs[h1].cached = None /\ Ok(hs[h1].net)
      /\ hs[h2].pc # "match" )
    => (hs[h2].calls = 0 /\ hs[h2].result = hs[h2].cached)

\* ---- C8
\* the entries a fetch handler wrote: their response comes from its fetch
WrittenByIntercept ==
  {<< n, k >> \in Names \X Keys : Entry(n, k).src > 0}

\* C8 as stated -- every entry Intercept has written into a bucket is a
\* network response with a success status.
C8_AsStated ==
  \A e \in WrittenByIntercept : Ok(Entry(e[1], e[2]))

\* ---- C9
\* C9 as stated -- every response a handler of version v returned from the
\* cache was read from bucket CACHE(v).
C9_AsStated ==
  \A h \in Handlers : hs[h].from \subseteq {CACHE(hs[h].ver)}

\* ---- C10
\* C10 -- populate before traffic: the activate event of version v fires,
\* and a fetch event is dispatched to v, only when the bulk population of
\* v's install has resolved successfully, although skipWaiting was called
\* before it resolved.
C10_PopulateBeforeTraffic ==
  /\ [][\A v \in Versions :
          ( \/ wstate[v] # "activating" /\ wstate'[v] = "activating"
            \/ Len(hs') > Len(hs) /\ hs'[Len(hs')].ver = v )
          => /\ ipc[v] = "stored"
             /\ installWait[v] = "fulfilled"
             /\ skipWaitingFlag[v]]_vars
  /\ [](\A v \in Versions :
          (ipc[v] \in {"open", "addAll"})
          => (skipWaitingFlag[v] /\ wstate[v] = "installing"
              /\ \A h \in Handlers : hs[h].ver # v))

C10_Witness ==
  \E v \in Versions :
    /\ wstate[v] = "activated" /\ ipc[v] = "stored"
    /\ \E h \in Handlers : hs[h].ver = v /\ hs[h].pc = "done"

\* ---- C11
\* version u has been the active worker (its activate event has fired)
WasActive(u) == apc[u] # "idle"

\* the versions that are the active worker
ActiveVersions == {v \in Versions : wstate[v] \in {"activating", "activated"}}

FirstStoreCompletes(h) ==
  /\ IsFont(hs[h].req) /\ hs[h].cached = None
  /\ hs[h].pc = "put" /\ hs'[h].pc = "done"

\* what a font handler lets the caller see
FontAnswer(h) ==
  /\ hs[h].pc # "fallback"
  /\ IsResponse(hs[h].result)
     => /\ hs[h].result.src \in Handlers
        /\ hs[hs[h].result.src].req = hs[h].req
  /\ (hs[h].cached = None /\ hs[h].pc \in {"put", "done"})
     => hs[h].result = hs[h].net

\* C13 as stated -- a font request that is not cached fails for the caller
\* when its fetch fails, is never answered with the entry of './index.html',
\* and when the fetch gives a response the caller receives it and bucket
\* CACHE holds it once the cache.put has completed.
C13_AsStated ==
  /\ [](\A h \in Handlers : IsFont(hs[h].req) => FontAnswer(h))
  /\ [][\A h \in Handlers :
          FirstStoreCompletes(h)
          => Entry(CACHE(hs[h].ver), hs[h].req)' = hs[h].net]_vars

\* C13 -- the font path has no offline fallback: a font request that is not
\* cached fails for the caller when its fetch fails and is answered with the
\* network response when the fetch gives one; a font request is only ever
\* answered with a response fetched for that very request, never with the
\* entry of './index.html'; once the cache.put of the network response has
\* completed, bucket CACHE holds it, provided the bucket the handler opened
\* has not been deleted in the meantime.
C13_FontNoFallback ==
  /\ [](\A h \in Handlers : IsFont(hs[h].req) => FontAnswer(h))
  /\ [](\A h \in Handlers :
          (IsFont(hs[h].req) /\ hs[h].cached = None /\ hs[h].net = Failed)
          => (hs[h].result = Failed /\ hs[h].pc = "done"))
  /\ [][\A h \in Handlers :
          (FirstStoreCompletes(h) /\ Alive(CACHE(hs[h].ver), hs[h].cache))
          => /\ hs[h].result = hs[h].net
             /\ Entry(CACHE(hs[h].ver), hs[h].req)' = hs[h].net]_vars

C13_Witness ==
  \E g, h \in Handlers :
    /\ IsFont(hs[g].req) /\ hs[g].cached = None /\ hs[g].pc = "done"
    /\ hs[g].net = Failed /\ hs[g].result = Failed
    /\ IsFont(hs[h].req) /\ hs[h].cached = None /\ hs[h].pc = "done"
    /\ IsResponse(hs[h].net) /\ hs[h].result = hs[h].net
    /\ Entry(CACHE(hs[h].ver), hs[h].req) = hs[h].net

\* ---- C14
\* the step is the last one of non-font handler h, which had a cache miss and
\* a network answer
MissAnsweredEnds(h) ==
  /\ ~IsFont(hs[h].req) /\ hs[h].cached = None
  /\ hs[h].pc # "done" /\ hs'[h].pc = "done"
  /\ IsResponse(hs'[h].net)

\* C14 as stated -- a non-font request that missed the cache and got a
\* network answer is answered with that response whatever its status is; its
\* handler ends with a completed cache.put of the response when the status
\* is a success and the request is same-origin, and otherwise ends without
\* changing any bucket.
C14_AsStated ==
  [][\A h \in Handlers :
       MissAnsweredEnds(h)
       => /\ hs'[h].result = hs'[h].net
          /\ IF LocalShouldPut(hs[h].req, hs'[h].net)
             THEN /\ hs[h].pc = "put"
                  /\ Alive(CACHE(hs[h].ver), hs[h].cache)
                     => Entry(CACHE(hs[h].ver), hs[h].req)' = hs[h].net
             ELSE /\ hs[h].pc = "fetch"
                  /\ UNCHANGED storeVars]_vars

\* ---- C15
\* font handler h had a cache hit
FontHit(h) == IsFont(hs[h].req) /\ hs[h].cached # None

\* C15 -- a font request with a cache entry is answered with it in the very
\* step in which the lookup resolves, before fetch(event.request) has
\* settled; the answer stays the cached response while the fetch is pending
\* and when it settles, with a response or with a failure; a failed fetch
\* changes no bucket and ends the handler.
C15_FontHitNeverWaits ==
  /\ [][\A h \in Handlers :
          (IsFont(hs[h].req) /\ hs[h].pc = "match" /\ hs'[h].cached # None)
          => /\ hs'[h].result = hs'[h].cached
             /\ hs'[h].pc = "fetch" /\ hs'[h].net = None]_vars
  /\ [](\A h \in Handlers :
          FontHit(h) => (IsResponse(hs[h].result) /\ hs[h].result = hs[h].cached))
  /\ [][\A h \in Handlers :
          (FontHit(h) /\ hs[h].pc = "fetch" /\ hs'[h].pc # "fetch")
          => /\ hs'[h].result = hs[h].result
             /\ UNCHANGED storeVars
             /\ hs'[h].net = Failed => hs'[h].pc = "done"]_vars

C15_Witness ==
  \E h \in Handlers :
    /\ FontHit(h) /\ hs[h].net = Failed /\ hs[h].pc = "done"
    /\ hs[h].result = hs[h].cached
    /\ Entry(CACHE(hs[h].ver), hs[h].req) = hs[h].cached

\* ---- C16
\* C16 as stated -- the promise Activate of version v handed to waitUntil is
\* pending as long as one of the caches.delete calls it started has not
\* settled, also when another of them has failed.
C16_AsStated ==
  \A v \in Versions : deleting[v] # {} => activateWait[v] = "pending"

\* ---- C17
\* handlers g and h served the same non-font same-origin request, uncached
\* for both, while the other was running, and both got a successful response
ConcurrentMisses(g, h) ==
  /\ g # h /\ hs[g].req = hs[h].req /\ hs[g].ver = hs[h].ver
  /\ ~IsFont(hs[g].req) /\ SameOrigin(hs[g].req)
  /\ g \notin hs[h].after /\ h \notin hs[g].after
  /\ hs[g].cached = None /\ hs[h].cached = None
  /\ Ok(hs[g].net) /\ Ok(hs[h].net)

\* C17 as stated -- two identical non-font same-origin requests intercepted
\* concurrently while the resource is not cached each make their own fetch
\* and each write the entry: when both handlers have run to their end, the
\* bucket of their version, while it is the active one, holds for the
\* request the response one of the two fetched.
C17_AsStated ==
  \A g, h \in Handlers :
    (ConcurrentMisses(g, h) /\ hs[g].pc = "done" /\ hs[h].pc = "done")
    => /\ hs[g].calls = 1 /\ hs[h].calls = 1
       /\ hs[g].net.src = g /\ hs[h].net.src = h
       /\ active = hs[g].ver
          => Entry(CACHE(hs[g].ver), hs[g].req) \in {hs[g].net, hs[h].net}

\* ---- C18
\* the tags of the versions deployed after version v
NewerTags(v) == {CACHE(u) : u \in {w \in Versions : w > v}}

\* every caches.delete Activate of version v started has succeeded
DeletionsResolved(v) ==
  /\ apc[v] = "done" /\ deleting[v] = {}
  /\ activateWait[v] = "fulfilled"

\* C18 as stated -- once version v is active and the deletions of its
\* Activate have resolved, no bucket exists under another name than CACHE(v),
\* the bucket of a version deployed later apart, whatever handlers of earlier
\* versions still do.
C18_AsStated ==
  \A v \in Versions :
    (wstate[v] = "activated" /\ DeletionsResolved(v))
    => Range(names) \ NewerTags(v) \subseteq {CACHE(v)}

\* ---- C19
\* the two font hostnames
FontHostnames == {"fonts.googleapis.com", "fonts.gstatic.com"}

\* a step of stale-while-revalidate: open the bucket of the version, look the
\* request up in it, fetch in every case and answer with the entry if there
\* is one and with the network outcome otherwise, store the response
SwrStep(a, b) ==
  \/ /\ a.pc = "open" /\ a.net = None
     /\ b.pc = "match" /\ b.cache # 0 /\ b.calls = 0 /\ b.result = Pending
  \/ /\ a.pc = "match" /\ a.cache # 0
     /\ b.pc = "fetch" /\ b.calls = 1
     /\ b.result = IF b.cached # None THEN b.cached ELSE Pending
  \/ /\ a.pc = "fetch" /\ a.cache # 0
     /\ b.pc = IF IsResponse(b.net) THEN "put" ELSE "done"
     /\ b.calls = 1
     /\ b.result = IF a.cached # None THEN a.cached ELSE b.net
  \/ /\ a.pc = "put" /\ b.pc = "done" /\ b.result = a.result /\ b.calls = 1

\* a step of cache-first: look the request up in the storage and answer with
\* the entry if there is one, else fetch and answer with the response, which
\* may then be stored, or with the entry of './index.html' if the fetch failed
CacheFirstStep(a, b) ==
  \/ /\ a.pc = "match" /\ a.cache = 0 /\ b.cached # None
     /\ b.pc = "done" /\ b.calls = 0 /\ b.result = b.cached
  \/ /\ a.pc = "match" /\ a.cache = 0 /\ b.cached = None
     /\ b.pc = "fetch" /\ b.calls = 1 /\ b.result = Pending
  \/ /\ a.pc = "fetch" /\ a.cache = 0 /\ b.net = Failed
     /\ b.pc = "fallback" /\ b.calls = 1 /\ b.result = Pending
  \/ /\ a.pc = "fetch" /\ a.cache = 0 /\ IsResponse(b.net)
     /\ b.pc \in {"open", "done"} /\ b.calls = 1 /\ b.result = b.net
  \/ /\ a.pc = "fallback" /\ a.result = Pending
     /\ b.pc = "done" /\ b.calls = 1 /\ b.result # Pending
  \/ /\ a.pc = "open" /\ a.net # None
     /\ b.pc \in {"put", "done"} /\ b.calls = 1 /\ b.result = a.result
  \/ /\ a.pc = "put" /\ b.pc = "done" /\ b.result = a.result /\ b.calls = 1

\* C19 -- exactly one policy per request: every fetch event gets one
\* respondWith promise, pending when the listener returns and never settled
\* twice; the handler of a request to fonts.googleapis.com or
\* fonts.gstatic.com starts with caches.open(CACHE) and takes only steps of
\* stale-while-revalidate, the handler of any other request starts with the
\* lookup in the storage and takes only steps of cache-first.
C19_OnePolicy ==
  /\ [][Len(hs') > Len(hs)
        => /\ Len(hs') = Len(hs) + 1
           /\ LET b == hs'[Len(hs')]
              IN  /\ b.result = Pending /\ b.calls = 0 /\ b.cache = 0
                  /\ b.pc = IF b.req.host \in FontHostnames THEN "open" ELSE "match"]_vars
  /\ [][\A h \in Handlers :
          hs'[h] # hs[h]
          => /\ hs'[h].req = hs[h].req
             /\ hs[h].result # Pending => hs'[h].result = hs[h].result
             /\ IF hs[h].req.host \in FontHostnames
                THEN SwrStep(hs[h], hs'[h])
                ELSE CacheFirstStep(hs[h], hs'[h])]_vars

C19_Witness ==
  \E g, h \in Handlers :
    /\ hs[g].req.host = "fonts.googleapis.com" /\ hs[g].pc = "done"
    /\ hs[g].cache # 0 /\ hs[g].calls = 1 /\ hs[g].result = hs[g].net
    /\ hs[h].req.host \notin FontHostnames /\ hs[h].pc = "done"
    /\ hs[h].cache = 0 /\ hs[h].calls = 0 /\ hs[h].result = hs[h].cached

\* ---- C20
\* bucket n holds an entry for every path of LOCAL_ASSETS
HoldsShell(n) == \A a \in AssetRequests : Entry(n, a) # None

====
